---- MODULE Spec2Model ----
(***************************************************************************)
(* Model of src/compress.py: ImageCompressor.process_folder, the per-file  *)
(* pipeline compress_image, and the two format-specific compressors        *)
(* compress_jpeg (quality search) and compress_png (fallback selector).    *)
(*                                                                         *)
(* File contents are abstracted to records naming what the bytes are (a    *)
(* copy of source entry i, an encoding in a format at a quality with a     *)
(* size, or a partially written file).  The codec (PIL) and the file       *)
(* system are the environment: every call into them either fails or        *)
(* yields a size drawn from a small set around target_size.                *)
(***************************************************************************)
EXTENDS Integers, Sequences, FiniteSets, TLC

\* ---------------------------------------------------------------- bounds
MaxFiles == 2          \* entries returned by get_image_files
MaxSizeMb == 2         \* max_file_size_mb ranges over 1..MaxSizeMb

\* ------------------------------------------------------ program constants
MB == 1024 * 1024      \* calculate_target_size, line 57
QualityStep == 5       \* compress_jpeg, line 77
QualityFloor == 10     \* compress_jpeg, line 76

Formats == {"JPEG", "PNG", "BMP"}   \* img.format values
Modes == {"RGB", "L"}               \* img.mode values
StartQualities == 0 .. 100          \* --quality help text: 0-100
ConfigQualities == {85, 12}         \* quality_jpeg / quality_png samples
NoInt == 0 - 1
NoStr == "None"

\* sizes the file system / the codec may report, around the budget t
FileSizes(t) == {t - 1, t, t + 1}
EncSizes(t) == {t, t + 1, t + 2}
JpegSizes(t) == {t, t + 1}     \* one encode of the search: within budget or not

\* ------------------------------------------------------------- contents
Absent == [kind |-> "absent", fmt |-> NoStr, quality |-> NoInt, size |-> NoInt, src |-> 0]
Partial == [kind |-> "partial", fmt |-> NoStr, quality |-> NoInt, size |-> NoInt, src |-> 0]
Old == [kind |-> "old", fmt |-> NoStr, quality |-> NoInt, size |-> NoInt, src |-> 0]
SourceBytes(i, fmt, sz) ==
    [kind |-> "source", fmt |-> fmt, quality |-> NoInt, size |-> sz, src |-> i]
Encoded(fmt, q, sz) ==
    [kind |-> "encoded", fmt |-> fmt, quality |-> q, size |-> sz, src |-> 0]

NoResult ==
    [status |-> NoStr, original_size |-> NoInt, compressed_size |-> NoInt,
     savings_percent |-> <<0, 1>>, format |-> NoStr, error |-> NoStr]

VARIABLES
    config,                \* self.config (the fields the pipeline reads)
    image_files,           \* len(image_files) in process_folder
    idx,                   \* entries of image_files already iterated
    pc,                    \* position in process_folder / compress_image
    original_format, original_size, img_mode, img_big,
    target_size, compressed_data, output_format, quality_used,
    compressed_size,
    quality,               \* compress_jpeg / compress_png parameter
    current_size, current_quality, temp_buffer,   \* compressor locals
    steps,                 \* pipeline steps of the current run, in order
    encodes,               \* image.save calls of the current run, in order
    fault,                 \* exception raised in the current run
    output,                \* content of output_path of the current entry
    out_before,            \* content of output_path when the current run began
    result,                \* value returned by compress_image
    total_original_size, total_compressed_size,
    processed_count, skipped_count, error_count

fileVars == <<original_format, original_size, img_mode, img_big>>
localVars == <<target_size, compressed_data, output_format, quality_used, compressed_size>>
searchVars == <<quality, current_size, current_quality, temp_buffer>>
countVars == <<total_original_size, total_compressed_size,
               processed_count, skipped_count, error_count>>
vars == <<config, image_files, idx, pc, fileVars, localVars, searchVars,
          steps, encodes, fault, output, out_before, result, countVars>>

\* ------------------------------------------------------- pure functions
\* calculate_target_size ignores original_size
calculate_target_size(orig, max_size_mb) == max_size_mb * MB

\* line 113
SkipTest_lt(orig, target) == orig < target
SkipTest(orig, target) == orig <= target

\* line 123
ResizeWanted_always(cfg) == TRUE
ResizeWanted(cfg) == cfg.resize_enabled

\* line 76, the while condition of the quality search
SearchContinues(size, target, q) == size > target /\ q > QualityFloor

\* line 91
PngOverBudget(size, target) == size > target

\* line 100
PngFallbackTaken_le(jpeg_size, png_size) == jpeg_size <= png_size
PngFallbackTaken_always(jpeg_size, png_size) == TRUE
PngFallbackTaken(jpeg_size, png_size) == jpeg_size < png_size

\* line 150, kept as the exact fraction <<numerator, denominator>>
Savings(orig, comp) == <<(orig - comp) * 100, orig>>

\* ----------------------------------------------------------------- Init
CleanFile ==
    /\ original_format = NoStr /\ original_size = NoInt
    /\ img_mode = NoStr /\ img_big = FALSE

CleanLocals ==
    /\ target_size = NoInt /\ compressed_data = Absent /\ output_format = NoStr
    /\ quality_used = NoInt /\ compressed_size = NoInt

CleanSearch ==
    /\ quality = NoInt /\ current_size = NoInt /\ current_quality = NoInt
    /\ temp_buffer = Absent

Init ==
    /\ config \in [max_file_size_mb : 1 .. MaxSizeMb,
                   quality_jpeg : ConfigQualities,
                   quality_png : {85},
                   resize_enabled : BOOLEAN]
    /\ image_files = 0 /\ idx = 0 /\ pc = "start"
    /\ CleanFile /\ CleanLocals /\ CleanSearch
    /\ steps = <<>> /\ encodes = <<>> /\ fault = NoStr
    /\ output = Absent /\ out_before = Absent
    /\ result = NoResult
    /\ total_original_size = 0 /\ total_compressed_size = 0
    /\ processed_count = 0 /\ skipped_count = 0 /\ error_count = 0

\* ------------------------------------------------- process_folder, head
\* lines 167-189: enumerate the input folder; an empty list returns early
Enumerate ==
    /\ pc = "start"
    /\ \E n \in 0 .. MaxFiles :
          /\ image_files' = n
          /\ pc' = IF n = 0 THEN "done" ELSE "loop"
    /\ UNCHANGED <<config, idx, fileVars, localVars, searchVars, steps, encodes,
                   fault, output, out_before, result, countVars>>

\* lines 191-194: the next entry is handed to compress_image.  Its
\* output_path may not exist yet, or hold a file written earlier.
LoopNext ==
    /\ pc = "loop" /\ idx < image_files
    /\ \E c \in {Absent, Old} : output' = c /\ out_before' = c
    /\ pc' = "open"
    /\ UNCHANGED <<config, image_files, idx, fileVars, localVars, searchVars,
                   steps, encodes, fault, result, countVars>>

\* lines 210-221: the loop is exhausted, the summary is printed
LoopEnd ==
    /\ pc = "loop" /\ idx = image_files
    /\ pc' = "done"
    /\ UNCHANGED <<config, image_files, idx, fileVars, localVars, searchVars,
                   steps, encodes, fault, output, out_before, result, countVars>>

\* ------------------------------------------------------- compress_image
\* an exception raised at a step: control goes to the except clause
Raise(what) ==
    /\ fault' = what
    /\ pc' = "except"

\* lines 108-109: Image.open reads the header and gives format and mode
ImageOpen ==
    /\ pc = "open"
    /\ \/ /\ \E f \in Formats, m \in Modes, b \in BOOLEAN :
                /\ original_format' = f /\ img_mode' = m /\ img_big' = b
          /\ steps' = Append(steps, "open")
          /\ pc' = "getsize"
          /\ UNCHANGED fault
       \/ /\ Raise("open")
          /\ UNCHANGED <<original_format, img_mode, img_big, steps>>
    /\ UNCHANGED <<config, image_files, idx, original_size, localVars,
                   searchVars, encodes, output, out_before, result, countVars>>

\* lines 110-111: os.path.getsize and the budget
GetSize ==
    /\ pc = "getsize"
    /\ \/ /\ \E sz \in FileSizes(calculate_target_size(0, config.max_file_size_mb)) :
                /\ original_size' = sz
                /\ target_size' = calculate_target_size(sz, config.max_file_size_mb)
          /\ pc' = "check"
          /\ UNCHANGED fault
       \/ /\ Raise("getsize")
          /\ UNCHANGED <<original_size, target_size>>
    /\ UNCHANGED <<config, image_files, idx, original_format, img_mode,
                   img_big, compressed_data, output_format, quality_used,
                   compressed_size, searchVars, steps, encodes, output, out_before,
                   result, countVars>>

\* line 113: the skip check
SizeCheck ==
    /\ pc = "check"
    /\ steps' = Append(steps, "size_check")
    /\ pc' = IF SkipTest(original_size, target_size) THEN "copy" ELSE "resize"
    /\ UNCHANGED <<config, image_files, idx, fileVars, localVars, searchVars,
                   encodes, fault, output, out_before, result, countVars>>

\* lines 114-121: shutil.copy2, then the skipped result.  A failed copy may
\* leave output_path untouched or partially written.
CopySkip ==
    /\ pc = "copy"
    /\ steps' = Append(steps, "copy")
    /\ \/ /\ output' = SourceBytes(idx + 1, original_format, original_size)
          /\ result' = [NoResult EXCEPT !.status = "skipped",
                                        !.original_size = original_size,
                                        !.compressed_size = original_size,
                                        !.savings_percent = <<0, 1>>,
                                        !.format = original_format]
          /\ pc' = "ret"
          /\ UNCHANGED fault
       \/ /\ Raise("copy")
          /\ \/ output' = output
             \/ output' = Partial
          /\ UNCHANGED result
    /\ UNCHANGED <<config, image_files, idx, fileVars, localVars, searchVars,
                   encodes, out_before, countVars>>

\* lines 123-124 and resize_image (59-64): thumbnail only when too big
Resize ==
    /\ pc = "resize" /\ ResizeWanted(config)
    /\ steps' = Append(steps, "resize")
    /\ \/ /\ img_big' = FALSE
          /\ pc' = "dispatch"
          /\ UNCHANGED fault
       \/ /\ img_big
          /\ Raise("resize")
          /\ UNCHANGED img_big
    /\ UNCHANGED <<config, image_files, idx, original_format,
                   original_size, img_mode, localVars, searchVars, encodes, output,
                   out_before, result, countVars>>

\* line 123, resize disabled
NoResize ==
    /\ pc = "resize" /\ ~ResizeWanted(config)
    /\ pc' = "dispatch"
    /\ UNCHANGED <<config, image_files, idx, fileVars, localVars, searchVars, steps,
                   encodes, fault, output, out_before, result, countVars>>

\* lines 128-144: dispatch on the decoded format
Dispatch_opens_output ==
    /\ pc = "dispatch"
    /\ steps' = Append(steps, "encode")
    /\ output' = Partial
    /\ IF original_format \in {"JPEG", "JPG"}
       THEN pc' = "jpeg_convert" /\ quality' = config.quality_jpeg
       ELSE IF original_format = "PNG"
       THEN pc' = "png_encode" /\ quality' = config.quality_png
       ELSE pc' = "other_encode" /\ UNCHANGED quality
    /\ UNCHANGED <<config, image_files, idx, fileVars, localVars, current_size,
                   current_quality, temp_buffer, encodes, fault, out_before,
                   result, countVars>>

Dispatch ==
    /\ pc = "dispatch"
    /\ steps' = Append(steps, "encode")
    /\ IF original_format \in {"JPEG", "JPG"}
       THEN pc' = "jpeg_convert" /\ quality' = config.quality_jpeg
       ELSE IF original_format = "PNG"
       THEN pc' = "png_encode" /\ quality' = config.quality_png
       ELSE pc' = "other_encode" /\ UNCHANGED quality
    /\ UNCHANGED <<config, image_files, idx, fileVars, localVars, current_size,
                   current_quality, temp_buffer, encodes, fault, output, out_before,
                   result, countVars>>

\* -------------------------------------------------------- compress_jpeg
\* lines 67-68: colour-mode normalisation, once, before the first encode
JpegConvert ==
    /\ pc = "jpeg_convert"
    /\ \/ /\ img_mode' = "RGB"
          /\ pc' = "jpeg_buffer"
          /\ UNCHANGED fault
       \/ /\ img_mode # "RGB"
          /\ Raise("convert")
          /\ UNCHANGED img_mode
    /\ UNCHANGED <<config, image_files, idx, original_format,
                   original_size, img_big, localVars, searchVars, steps, encodes,
                   output, out_before, result, countVars>>

\* line 70 in the file as shipped: the module never imports BytesIO (lines
\* 1-7); the imports on lines 85 and 126 bind the name only inside
\* compress_png and compress_image.  The global lookup raises NameError.
JpegNameError ==
    /\ pc = "jpeg_buffer"
    /\ Raise("NameError")
    /\ UNCHANGED <<config, image_files, idx, fileVars, localVars, searchVars, steps,
                   encodes, output, out_before, result, countVars>>

\* lines 70-74 with the name BytesIO bound: the encode at the start quality
JpegFirstEncode ==
    /\ pc = "jpeg_buffer"
    /\ \/ /\ \E sz \in JpegSizes(target_size) :
                /\ temp_buffer' = Encoded("JPEG", quality, sz)
                /\ current_size' = sz
                /\ encodes' = Append(encodes, Encoded("JPEG", quality, sz))
          /\ current_quality' = quality
          /\ pc' = "jpeg_loop"
          /\ UNCHANGED fault
       \/ /\ Raise("encode")
          /\ UNCHANGED <<temp_buffer, current_size, current_quality, encodes>>
    /\ UNCHANGED <<config, image_files, idx, fileVars, localVars, quality, steps,
                   output, out_before, result, countVars>>

\* lines 76-80: one iteration of the step-down loop
JpegStepDown ==
    /\ pc = "jpeg_loop"
    /\ SearchContinues(current_size, target_size, current_quality)
    /\ \/ /\ \E sz \in JpegSizes(target_size) :
                /\ temp_buffer' = Encoded("JPEG", current_quality - QualityStep, sz)
                /\ current_size' = sz
                /\ encodes' = Append(encodes,
                                     Encoded("JPEG", current_quality - QualityStep, sz))
          /\ current_quality' = current_quality - QualityStep
          /\ UNCHANGED <<pc, fault>>
       \/ /\ Raise("encode")
          /\ current_quality' = current_quality - QualityStep
          /\ UNCHANGED <<temp_buffer, current_size, encodes>>
    /\ UNCHANGED <<config, image_files, idx, fileVars, localVars, quality, steps,
                   output, out_before, result, countVars>>

\* line 82: the loop condition is false, the last buffer is returned
JpegReturn ==
    /\ pc = "jpeg_loop"
    /\ ~SearchContinues(current_size, target_size, current_quality)
    /\ compressed_data' = temp_buffer
    /\ quality_used' = current_quality
    /\ output_format' = "JPEG"
    /\ pc' = "jpeg_returned"
    /\ UNCHANGED <<config, image_files, idx, fileVars, target_size, compressed_size,
                   searchVars, steps, encodes, fault, output, out_before, result,
                   countVars>>

\* --------------------------------------------------------- compress_png
\* lines 87-91: the lossless encode and the budget test
PngEncode ==
    /\ pc = "png_encode"
    /\ \/ /\ \E sz \in EncSizes(target_size) :
                /\ temp_buffer' = Encoded("PNG", NoInt, sz)
                /\ current_size' = sz
                /\ encodes' = Append(encodes, Encoded("PNG", NoInt, sz))
                /\ pc' = IF PngOverBudget(sz, target_size) THEN "png_jpeg"
                                                           ELSE "png_return"
          /\ UNCHANGED fault
       \/ /\ Raise("encode")
          /\ UNCHANGED <<temp_buffer, current_size, encodes>>
    /\ UNCHANGED <<config, image_files, idx, fileVars, localVars, quality,
                   current_quality, steps, output, out_before, result, countVars>>

\* lines 92-101: one lossy encode at the fallback quality, kept only when
\* PngFallbackTaken; otherwise control falls through to line 103
PngJpeg ==
    /\ pc = "png_jpeg"
    /\ \/ /\ \E sz \in EncSizes(target_size) :
                /\ encodes' = Append(encodes, Encoded("JPEG", quality, sz))
                /\ IF PngFallbackTaken(sz, current_size)
                   THEN /\ compressed_data' = Encoded("JPEG", quality, sz)
                        /\ output_format' = "JPEG"
                        /\ steps' = Append(steps, "encoded")
                        /\ pc' = "write"
                   ELSE /\ pc' = "png_return"
                        /\ UNCHANGED <<compressed_data, output_format, steps>>
          /\ UNCHANGED fault
       \/ /\ img_mode # "RGB"
          /\ Raise("convert")
          /\ UNCHANGED <<encodes, compressed_data, output_format, steps>>
       \/ /\ Raise("encode")
          /\ UNCHANGED <<encodes, compressed_data, output_format, steps>>
    /\ UNCHANGED <<config, image_files, idx, fileVars, target_size, quality_used,
                   compressed_size, searchVars, output, out_before, result, countVars>>

\* line 103
PngReturn ==
    /\ pc = "png_return"
    /\ compressed_data' = temp_buffer
    /\ output_format' = "PNG"
    /\ steps' = Append(steps, "encoded")
    /\ pc' = "write"
    /\ UNCHANGED <<config, image_files, idx, fileVars, target_size, quality_used,
                   compressed_size, searchVars, encodes, fault, output, out_before,
                   result, countVars>>

\* lines 139-144: any other format is re-encoded as it is
OtherEncode ==
    /\ pc = "other_encode"
    /\ \/ /\ \E sz \in EncSizes(target_size) :
                /\ compressed_data' = Encoded(original_format, NoInt, sz)
                /\ encodes' = Append(encodes, Encoded(original_format, NoInt, sz))
          /\ output_format' = original_format
          /\ steps' = Append(steps, "encoded")
          /\ pc' = "write"
          /\ UNCHANGED fault
       \/ /\ Raise("encode")
          /\ UNCHANGED <<compressed_data, encodes, output_format, steps>>
    /\ UNCHANGED <<config, image_files, idx, fileVars, target_size, quality_used,
                   compressed_size, searchVars, output, out_before, result, countVars>>

\* ----------------------------------------- compress_image, write and report
\* lines 146-147.  A failed write may leave output_path untouched or
\* truncated / partially written.
WriteOutput ==
    /\ pc = "write"
    /\ steps' = Append(steps, "write")
    /\ \/ /\ output' = compressed_data
          /\ pc' = "stat"
          /\ UNCHANGED fault
       \/ /\ Raise("write")
          /\ \/ output' = output
             \/ output' = Partial
    /\ UNCHANGED <<config, image_files, idx, fileVars, localVars, searchVars,
                   encodes, out_before, result, countVars>>

\* lines 149-159: the size is read back from disk, the result is built
StatOutput ==
    /\ pc = "stat"
    /\ \/ /\ compressed_size' = output.size
          /\ result' = [NoResult EXCEPT
                           !.status = "compressed",
                           !.original_size = original_size,
                           !.compressed_size = output.size,
                           !.savings_percent =
                               Savings(original_size, output.size),
                           !.format = output_format]
          /\ steps' = Append(steps, "report")
          /\ pc' = "ret"
          /\ UNCHANGED fault
       \/ /\ Raise("stat")
          /\ UNCHANGED <<compressed_size, result, steps>>
    /\ UNCHANGED <<config, image_files, idx, fileVars, target_size, compressed_data,
                   output_format, quality_used, searchVars, encodes, output,
                   out_before, countVars>>

\* lines 161-165: except Exception
HandleException_io_only ==
    /\ pc = "except"
    /\ IF fault \in {"open", "getsize", "copy", "write", "stat"}
       THEN /\ result' = [NoResult EXCEPT !.status = "error", !.error = fault]
            /\ pc' = "ret"
       ELSE /\ pc' = "raised"
            /\ UNCHANGED result
    /\ UNCHANGED <<config, image_files, idx, fileVars, localVars, searchVars, steps,
                   encodes, fault, output, out_before, countVars>>

HandleException ==
    /\ pc = "except"
    /\ result' = [NoResult EXCEPT !.status = "error", !.error = fault]
    /\ pc' = "ret"
    /\ UNCHANGED <<config, image_files, idx, fileVars, localVars, searchVars, steps,
                   encodes, fault, output, out_before, countVars>>

\* ------------------------------------------------- process_folder, body
\* the locals of the finished call are gone, and neither its result nor
\* its output_path is read again
ForgetRun ==
    /\ result' = NoResult /\ output' = Absent /\ out_before' = Absent
    /\ original_format' = NoStr /\ original_size' = NoInt
    /\ img_mode' = NoStr /\ img_big' = FALSE
    /\ target_size' = NoInt /\ compressed_data' = Absent /\ output_format' = NoStr
    /\ quality_used' = NoInt /\ compressed_size' = NoInt
    /\ quality' = NoInt /\ current_size' = NoInt /\ current_quality' = NoInt
    /\ temp_buffer' = Absent
    /\ steps' = <<>> /\ encodes' = <<>> /\ fault' = NoStr

\* lines 196-208: one result is accounted for
Account_error_sizes ==
    /\ pc = "ret"
    /\ total_original_size' = total_original_size + result.original_size
    /\ total_compressed_size' = total_compressed_size + result.compressed_size
    /\ processed_count' = processed_count + (IF result.status = "compressed" THEN 1 ELSE 0)
    /\ skipped_count' = skipped_count + (IF result.status = "skipped" THEN 1 ELSE 0)
    /\ error_count' = error_count + (IF result.status = "error" THEN 1 ELSE 0)
    /\ idx' = idx + 1
    /\ pc' = "loop"
    /\ ForgetRun
    /\ UNCHANGED <<config, image_files>>

Account ==
    /\ pc = "ret"
    /\ IF result.status = "compressed"
       THEN /\ total_original_size' = total_original_size + result.original_size
            /\ total_compressed_size' = total_compressed_size + result.compressed_size
            /\ processed_count' = processed_count + 1
            /\ UNCHANGED <<skipped_count, error_count>>
       ELSE IF result.status = "skipped"
       THEN /\ total_original_size' = total_original_size + result.original_size
            /\ total_compressed_size' = total_compressed_size + result.compressed_size
            /\ skipped_count' = skipped_count + 1
            /\ UNCHANGED <<processed_count, error_count>>
       ELSE IF result.status = "error"
       THEN /\ error_count' = error_count + 1
            /\ UNCHANGED <<total_original_size, total_compressed_size,
                           processed_count, skipped_count>>
       ELSE UNCHANGED countVars
    /\ idx' = idx + 1
    /\ pc' = "loop"
    /\ ForgetRun
    /\ UNCHANGED <<config, image_files>>

\* ------------------------------------------------------- specifications
Next ==
    \/ Enumerate \/ LoopNext \/ LoopEnd
    \/ ImageOpen \/ GetSize \/ SizeCheck \/ CopySkip \/ Resize \/ NoResize
    \/ Dispatch \/ JpegConvert \/ JpegNameError
    \/ PngEncode \/ PngJpeg \/ PngReturn \/ OtherEncode
    \/ WriteOutput \/ StatOutput \/ HandleException \/ Account

Spec == Init /\ [][Next]_vars

\* the whole program is one sequential thread: it always takes its next step
FairSpec == Spec /\ WF_vars(Next)

\* compress_jpeg on its own, called as on lines 129-131, in a module
\* namespace that binds BytesIO (as lines 85 and 126 bind it for the other
\* two functions).  The file as shipped never gets past line 70
\* (JpegNameError); this specification is the search of lines 70-82 itself.
InitSearch ==
    /\ \E m \in 1 .. MaxSizeMb, q \in StartQualities :
          /\ config = [max_file_size_mb |-> m, quality_jpeg |-> q,
                       quality_png |-> 85, resize_enabled |-> FALSE]
          /\ quality = q
          /\ target_size = calculate_target_size(0, m)
    /\ original_format = "JPEG" /\ original_size = NoInt
    /\ img_mode \in Modes /\ img_big = FALSE
    /\ image_files = 1 /\ idx = 0 /\ pc = "jpeg_convert"
    /\ compressed_data = Absent /\ output_format = NoStr
    /\ quality_used = NoInt /\ compressed_size = NoInt
    /\ current_size = NoInt /\ current_quality = NoInt /\ temp_buffer = Absent
    /\ steps = <<>> /\ encodes = <<>> /\ fault = NoStr
    /\ output = Absent /\ out_before = Absent
    /\ result = NoResult
    /\ total_original_size = 0 /\ total_compressed_size = 0
    /\ processed_count = 0 /\ skipped_count = 0 /\ error_count = 0

NextSearch == JpegConvert \/ JpegFirstEncode \/ JpegStepDown \/ JpegReturn

SearchSpec == InitSearch /\ [][NextSearch]_vars

\* =============================================================== claims
Has(step) == \E i \in 1 .. Len(steps) : steps[i] = step
Budget == config.max_file_size_mb * 1024 * 1024
CodecOrIoFaults == {"open", "getsize", "copy", "resize", "convert", "encode",
                    "write", "stat"}
RunOver == pc = "ret"

\* C1: a JPEG file larger than the budget, with decode, encode and write
\* all succeeding, ends as status 'compressed', format 'JPEG', with the
\* bytes of the last encode of the quality search (started at quality_jpeg)
\* in output_path; it does not end as 'error'.
C1_JpegOverBudgetCompressed ==
    (RunOver /\ original_format = "JPEG" /\ original_size > Budget
       /\ fault \notin CodecOrIoFaults)
    => /\ result.status = "compressed"
       /\ result.format = "JPEG"
       /\ Len(encodes) >= 1
       /\ encodes[1].quality = config.quality_jpeg
       /\ output = encodes[Len(encodes)]

\* C2: a file with original_size <= max_file_size_mb * 1024 * 1024 is never
\* resized or encoded; unless the copy itself fails the run ends as
\* 'skipped' with output_path holding the source bytes,
\* compressed_size = original_size and savings_percent = 0.
C2_SkipInvariant ==
    (original_size # NoInt /\ original_size <= Budget)
    => /\ target_size = Budget
       /\ encodes = <<>>
       /\ ~Has("resize") /\ ~Has("encode") /\ ~Has("write")
       /\ fault \in {NoStr, "copy"}
       /\ (RunOver /\ fault = NoStr) =>
             /\ result.status = "skipped"
             /\ result.original_size = original_size
             /\ result.compressed_size = original_size
             /\ result.savings_percent[1] = 0
             /\ output = SourceBytes(idx + 1, original_format, original_size)

C2_Witness ==
    /\ RunOver /\ result.status = "skipped"
    /\ original_size = Budget
    /\ output.kind = "source"

PngReturned == original_format = "PNG" /\ Has("encoded")

C4_FallbackDominance ==
    PngReturned
    => /\ encodes[1].fmt = "PNG"
       /\ compressed_data.size <= encodes[1].size
       /\ encodes[1].size <= target_size =>
             /\ compressed_data = encodes[1]
             /\ output_format = "PNG"
             /\ Len(encodes) = 1

C4_Witness ==
    /\ PngReturned /\ Len(encodes) = 2
    /\ encodes[2].size > encodes[1].size
    /\ compressed_data = encodes[1]

\* C5: no failure leaves compress_image as an exception: every fault ends
\* in the except clause and comes back as a result with status 'error'
\* carrying its message, and after a fault the batch loop still handles
\* every enumerated entry and reaches its end.
C5_ErrorContainment ==
    /\ [](pc # "raised")
    /\ []((RunOver /\ fault # NoStr) =>
             (result.status = "error" /\ result.error = fault))
    /\ [](pc = "done" => idx = image_files)
    /\ ((fault # NoStr) ~> (pc = "done" /\ idx = image_files))

C5_Witness ==
    /\ pc = "done" /\ idx = image_files
    /\ error_count >= 1 /\ error_count < idx

\* C6: the steps of one run are in the order open, size check, (copy |
\* resize, encode, write, report), none repeated; resize happens only with
\* resize_enabled and after the size check found original_size >
\* target_size; the write happens only after the format-specific encode has
\* returned; the run ends in exactly one of skipped, compressed, error.
Rank(step) ==
    CASE step = "open" -> 1
      [] step = "size_check" -> 2
      [] step = "copy" -> 3
      [] step = "resize" -> 3
      [] step = "encode" -> 4
      [] step = "encoded" -> 5
      [] step = "write" -> 6
      [] step = "report" -> 7

C6_PipelineOrder ==
    /\ \A i, j \in 1 .. Len(steps) : i < j => Rank(steps[i]) < Rank(steps[j])
    /\ Has("size_check") => Has("open")
    /\ Has("copy") => (Has("size_check") /\ ~Has("resize") /\ original_size <= target_size)
    /\ Has("resize") =>
          (config.resize_enabled /\ Has("size_check") /\ original_size > target_size)
    /\ Has("encode") => (Has("size_check") /\ original_size > target_size)
    /\ Has("encoded") => (Has("encode") /\ Len(encodes) >= 1)
    /\ Has("write") =>
          (Has("encoded") /\ compressed_data # Absent
             /\ \E i \in 1 .. Len(encodes) : compressed_data = encodes[i])
    /\ Has("report") => Has("write")
    /\ RunOver =>
          /\ result.status \in {"skipped", "compressed", "error"}
          /\ result.status = "skipped" <=> (fault = NoStr /\ Has("copy"))
          /\ result.status = "compressed" <=> (fault = NoStr /\ Has("report"))
          /\ result.status = "error" <=> fault # NoStr

C6_Witness ==
    /\ RunOver /\ result.status = "compressed"
    /\ steps = <<"open", "size_check", "resize", "encode", "encoded", "write", "report">>

\* C7: the quality search returns after finitely many encodes with the
\* bytes and quality of its last encode; the qualities tried are start,
\* start-5, start-10, ..., and the returned one is the first of them whose
\* size is within target_size or which is <= 10.
JpegCalled == original_format = "JPEG" /\ quality # NoInt
JpegCallOver ==
    /\ JpegCalled
    /\ pc \notin {"jpeg_convert", "jpeg_buffer", "jpeg_loop"}
    /\ fault \notin CodecOrIoFaults

C7_SearchResult ==
    JpegCallOver
    => /\ Len(encodes) >= 1 /\ Len(encodes) <= 100
       /\ \A i \in 1 .. Len(encodes) :
             /\ encodes[i].fmt = "JPEG"
             /\ encodes[i].quality = quality - 5 * (i - 1)
             /\ i < Len(encodes) =>
                   (encodes[i].size > target_size /\ encodes[i].quality > 10)
       /\ \/ encodes[Len(encodes)].size <= target_size
          \/ encodes[Len(encodes)].quality <= 10
       /\ quality_used = encodes[Len(encodes)].quality
       /\ compressed_data = encodes[Len(encodes)]

\* C8: compress_png returns the lossy bytes tagged 'JPEG' exactly when the
\* lossless size is above target_size and the lossy size is strictly below
\* the lossless size; otherwise the lossless bytes tagged 'PNG'.  Over
\* budget exactly one lossy encode is made, at quality_png, and its size is
\* not compared with target_size.
C8_FallbackRule ==
    PngReturned
    => /\ encodes[1].fmt = "PNG"
       /\ IF encodes[1].size > target_size
          THEN /\ Len(encodes) = 2
               /\ encodes[2].fmt = "JPEG"
               /\ encodes[2].quality = config.quality_png
          ELSE Len(encodes) = 1
       /\ output_format \in {"JPEG", "PNG"}
       /\ output_format = "JPEG" <=>
             (encodes[1].size > target_size /\ encodes[2].size < encodes[1].size)
       /\ output_format = "JPEG" => compressed_data = encodes[2]
       /\ output_format = "PNG" => compressed_data = encodes[1]

C8_Witness ==
    /\ PngReturned /\ Len(encodes) = 2
    /\ encodes[2].size = encodes[1].size
    /\ output_format = "PNG"

\* C9: the three counters always add up to the number of entries handled;
\* handling one entry advances idx by one, raises exactly the counter of its
\* result's status by one, and adds the result's sizes to the totals for
\* 'compressed' and 'skipped' only; nothing else changes them.
CountersAddUp ==
    /\ processed_count + skipped_count + error_count = idx
    /\ idx <= image_files

Bump(status, which) == IF status = which THEN 1 ELSE 0

C9_BatchAccounting ==
    /\ CountersAddUp
    /\ [][/\ CountersAddUp'
          /\ pc = "ret" =>
                /\ idx' = idx + 1
                /\ processed_count' = processed_count + Bump(result.status, "compressed")
                /\ skipped_count' = skipped_count + Bump(result.status, "skipped")
                /\ error_count' = error_count + Bump(result.status, "error")
                /\ result.status \in {"compressed", "skipped", "error"}
                /\ IF result.status = "error"
                   THEN UNCHANGED <<total_original_size, total_compressed_size>>
                   ELSE /\ total_original_size' = total_original_size + original_size
                        /\ total_compressed_size' =
                              total_compressed_size + output.size
          /\ pc # "ret" => UNCHANGED <<idx, countVars>>]_vars

C9_Witness ==
    /\ pc = "loop" /\ idx = 2
    /\ error_count = 1 /\ processed_count = 1
    /\ total_original_size > total_compressed_size
    /\ total_compressed_size > 0

\* C10: when the run fails at opening, resizing or encoding the image,
\* output_path is as it was before the run.
C10_NoOutputOnFailedEncode ==
    fault \in {"open", "resize", "convert", "encode", "NameError"}
    => output = out_before

C10_Witness ==
    /\ RunOver /\ result.status = "error" /\ fault = "encode"
    /\ Len(encodes) = 1
    /\ out_before = Old /\ output = Old

====
